---- MODULE Spec2Model ----
(***************************************************************************)
(* Unity MCP server: the Editor.log window extractor                       *)
(* (unity_compile_core.py), the compile orchestrators (unity_compile_core  *)
(* and the static compile_project tool of server.py) and the dynamic tool  *)
(* registry (server.py, register_dynamic_unity_tools).                     *)
(*                                                                         *)
(* Strings are sequences of one-character strings, a log is a sequence of  *)
(* lines.  Line indices in results are Python's (0-based), -1 = not found. *)
(***************************************************************************)
EXTENDS Integers, Sequences, FiniteSets, TLC

VARIABLES component, log, on_duplicate, registry, latest, call, ret, events

vars == <<component, log, on_duplicate, registry, latest, call, ret, events>>

----------------------------------------------------------------------------
(* Bounds *)

MaxLogLen == 5

MaxCompileLogLen == 4

MaxBatch == 2

----------------------------------------------------------------------------
(* Strings *)

START_MARKER == <<"E", "S">>

TUNDRA_MARKER == <<"*", " ", "T">>

OUTPUT_MARKER == <<"#", " ", "O">>

Whitespace == {" ", "\n"}

\* marker in line  (Python substring test)
Contains(line, marker) ==
    \E i \in 1..(Len(line) - Len(marker) + 1) :
        SubSeq(line, i, i + Len(marker) - 1) = marker

RECURSIVE LStrip(_)
LStrip(s) ==
    IF s # <<>> /\ Head(s) \in Whitespace THEN LStrip(Tail(s)) ELSE s

RECURSIVE RStrip(_)
RStrip(s) ==
    IF s # <<>> /\ s[Len(s)] \in Whitespace
    THEN RStrip(SubSeq(s, 1, Len(s) - 1))
    ELSE s

\* str.strip()
Strip(s) == RStrip(LStrip(s))

----------------------------------------------------------------------------
(* Log window extractor: UnityCompileCore.parse_compilation_logs *)

Msg(text, args) == [text |-> text, args |-> args]

Result(success, message, logs) ==
    [success |-> success, message |-> message, compilation_logs |-> logs]

\* (mutant) the index starts at 0 instead of -1
RECURSIVE ScanBackFromZero(_, _, _, _)
ScanBackFromZero(lines, marker, from, stop) ==
    IF from <= stop THEN 0
    ELSE IF Contains(lines[from + 1], marker) THEN from
    ELSE ScanBackFromZero(lines, marker, from - 1, stop)

\* for i in range(from, stop, -1): if marker in lines[i]: return i   (else -1)
RECURSIVE ScanBack(_, _, _, _)
ScanBack(lines, marker, from, stop) ==
    IF from <= stop THEN -1
    ELSE IF Contains(lines[from + 1], marker) THEN from
    ELSE ScanBack(lines, marker, from - 1, stop)

\* (mutant) the lines are collected without strip()
RECURSIVE CollectRaw(_, _, _)
CollectRaw(lines, from, stop) ==
    IF from >= stop THEN <<>>
    ELSE LET line == lines[from + 1]
         IN  (IF line # <<>> THEN <<line>> ELSE <<>>) \o CollectRaw(lines, from + 1, stop)

\* for i in range(from, stop): line = lines[i].strip(); if line: append
RECURSIVE Collect(_, _, _)
Collect(lines, from, stop) ==
    IF from >= stop THEN <<>>
    ELSE LET line == Strip(lines[from + 1])
         IN  (IF line # <<>> THEN <<line>> ELSE <<>>) \o Collect(lines, from + 1, stop)

\* (mutant) the scan for the section marker runs down to the top of the file
TundraScanWholeFile(compilation_start_index) == -1

\* range(len(lines) - 1, compilation_start_index, -1), line 106
TundraScanStop(compilation_start_index) == compilation_start_index

\* (mutant) the scan for the output marker runs down to the top of the file
OutputScanWholeFile(compilation_start_index) == -1

\* range(tundra_index - 1, compilation_start_index, -1), line 120
OutputScanStop(compilation_start_index) == compilation_start_index

\* the body of parse_compilation_logs once the file has been read
ParseLines(lines) ==
    LET compilation_start_index == ScanBack(lines, START_MARKER, Len(lines) - 1, -1)
    IN
    IF compilation_start_index = -1
    THEN Result(FALSE, Msg("EditorCompilation:InvokeCompilationStarted marker not found", <<>>), <<>>)
    ELSE
    LET tundra_index ==
            ScanBack(lines, TUNDRA_MARKER, Len(lines) - 1,
                     TundraScanStop(compilation_start_index))
    IN
    IF tundra_index = -1
    THEN Result(FALSE, Msg("* Tundra not found after EditorCompilation:InvokeCompilationStarted", <<>>), <<>>)
    ELSE
    LET output_start_index ==
            ScanBack(lines, OUTPUT_MARKER, tundra_index - 1,
                     OutputScanStop(compilation_start_index))
    IN
    IF output_start_index = -1
    THEN Result(TRUE,
                Msg("No errors found in this compilation. (# Output not found before * Tundra)",
                    <<compilation_start_index, tundra_index>>),
                <<>>)
    ELSE
    LET compilation_logs == Collect(lines, output_start_index + 1, tundra_index)
    IN  Result(TRUE,
               Msg("Successfully read compilation records",
                   <<Len(compilation_logs), output_start_index, tundra_index>>),
               compilation_logs)

\* parse_compilation_logs: open/readlines may raise, the except arm answers
parse_compilation_logs(readable, lines) ==
    IF readable
    THEN ParseLines(lines)
    ELSE Result(FALSE, Msg("Error reading log", <<"OSError">>), <<>>)

----------------------------------------------------------------------------
(* Python values that may or may not be mappings (responses, descriptors)  *)

Mapping(f) == [kind |-> "mapping", items |-> f]

Scalar(v) == [kind |-> "scalar", value |-> v]

IsMapping(x) == x.kind = "mapping"

Has(x, k) == k \in DOMAIN x.items

\* dict.get(k, default); only evaluated on mappings
Get(x, k, default) == IF Has(x, k) THEN x.items[k] ELSE default

----------------------------------------------------------------------------
(* Executor connection as seen by its callers.                             *)
(* acquire: what get_unity_connection() does; send: what send_command does *)

SETTLE_SECONDS == 3

AcquireOutcomes == {"conn", "none", "raises"}

Responses ==
    { Mapping([success |-> TRUE, message |-> "m", data |-> "d"]),
      Mapping([success |-> TRUE]),
      Mapping([success |-> FALSE, error |-> "e"]),
      Mapping([success |-> FALSE]),
      Mapping([message |-> "m"]),
      Mapping([error |-> "e"]),
      Mapping([success |-> TRUE, error |-> "e"]),
      Scalar("text") }

SendOutcomes == Responses \cup {Scalar("raises")}

Raises(send) == send = Scalar("raises")

\* lines 39-41: success = r.get("success", True); no "error" key => True
TriggerSuccess(refresh_response) ==
    LET success == Get(refresh_response, "success", TRUE)
    IN  IF IsMapping(refresh_response) /\ ~Has(refresh_response, "error")
        THEN TRUE
        ELSE success

\* trigger_compilation_via_unity(unity_connection): [triggered, events]
trigger_compilation_via_unity(given, acquire, send) ==
    LET acquired == IF given = "none" THEN <<<<"acquire">>>> ELSE <<>>
        conn     == IF given = "none" THEN acquire ELSE given
        sent     == <<<<"send", "project_files_refresher">>>>
    IN
    IF conn = "raises"
    THEN [triggered |-> FALSE, events |-> acquired]
    ELSE IF conn = "none"
    THEN [triggered |-> FALSE, events |-> acquired]
    ELSE IF Raises(send) \/ ~IsMapping(send)
    THEN [triggered |-> FALSE, events |-> acquired \o sent]
    ELSE IF TriggerSuccess(send)
    THEN [triggered |-> TRUE,
          events |-> acquired \o sent \o <<<<"sleep", SETTLE_SECONDS>>>>]
    ELSE [triggered |-> FALSE, events |-> acquired \o sent]

----------------------------------------------------------------------------
(* Editor.log path resolution: get_editor_log_path *)

Environments ==
    { [LOCALAPPDATA |-> "L", USER |-> "u"],
      [USER |-> "u"] }

EnvGet(env, k, default) == IF k \in DOMAIN env THEN env[k] ELSE default

EditorLogPath(env) ==
    LET given == EnvGet(env, "LOCALAPPDATA", "")
        localappdata ==
            IF given = ""
            THEN <<"/mnt/c/Users", EnvGet(env, "USER", "Unknown"), "AppData", "Local">>
            ELSE <<given>>
    IN  localappdata \o <<"Unity", "Editor", "Editor.log">>

FileSystems == {{}} \cup {{EditorLogPath(env)} : env \in Environments}

\* Path.exists(): access = "denied" is the stat that raises (PermissionError)
PathProbe(path, files, access) ==
    IF access = "denied" THEN "raises"
    ELSE IF path \in files THEN "exists"
    ELSE "missing"

\* (mutant) the path is returned without the exists() test
get_editor_log_path_unchecked(env, files, access) ==
    [raised |-> access = "denied", path |-> EditorLogPath(env)]

\* [raised, path]; None is modelled as the empty path
get_editor_log_path(env, files, access) ==
    LET editor_log_path == EditorLogPath(env)
        probe == PathProbe(editor_log_path, files, access)
    IN  [raised |-> probe = "raises",
         path |-> IF probe = "exists" THEN editor_log_path ELSE <<>>]

----------------------------------------------------------------------------
(* Compile orchestrator: UnityCompileCore.compile_project *)

TriggerStep(skip_trigger, given, acquire, send) ==
    IF ~skip_trigger
    THEN trigger_compilation_via_unity(given, acquire, send).events
    ELSE <<>>

\* the outer except arm, lines 193-199
CompileFault(done) ==
    [ret |-> Result(FALSE, Msg("Compilation error", <<"Exception">>), <<>>),
     events |-> done]

\* (mutant) a trigger that did not succeed ends the call
compile_project_needs_trigger(given, skip_trigger, acquire, send, env, files, access, lines) ==
    LET before == TriggerStep(skip_trigger, given, acquire, send)
        resolved == get_editor_log_path(env, files, access)
    IN
    IF ~skip_trigger /\ ~trigger_compilation_via_unity(given, acquire, send).triggered
    THEN CompileFault(before)
    ELSE IF resolved.raised
    THEN CompileFault(before \o <<<<"resolve">>>>)
    ELSE IF resolved.path = <<>>
    THEN [ret |-> Result(FALSE, Msg("Unity Editor.log not found", <<>>), <<>>),
          events |-> before \o <<<<"resolve">>>>]
    ELSE [ret |-> parse_compilation_logs(access = "ok", lines),
          events |-> before \o <<<<"resolve">>, <<"parse">>>>]

\* [ret, events]
compile_project(given, skip_trigger, acquire, send, env, files, access, lines) ==
    LET before == TriggerStep(skip_trigger, given, acquire, send)
        resolved == get_editor_log_path(env, files, access)
    IN
    IF resolved.raised
    THEN CompileFault(before \o <<<<"resolve">>>>)
    ELSE IF resolved.path = <<>>
    THEN [ret |-> Result(FALSE, Msg("Unity Editor.log not found", <<>>), <<>>),
          events |-> before \o <<<<"resolve">>>>]
    ELSE [ret |-> parse_compilation_logs(access = "ok", lines),
          events |-> before \o <<<<"resolve">>, <<"parse">>>>]

----------------------------------------------------------------------------
(* Static tool compile_project of server.py (its own copy of the scan) *)

ServerFault(done) ==
    [ret |-> Result(FALSE, Msg("Error reading log", <<"Exception">>), <<>>),
     events |-> done]

\* lines 243-296
ServerParseLines(lines) ==
    LET compilation_start_index == ScanBack(lines, START_MARKER, Len(lines) - 1, -1)
    IN
    IF compilation_start_index = -1
    THEN Result(FALSE, Msg("EditorCompilation:InvokeCompilationStarted marker not found", <<>>), <<>>)
    ELSE
    LET tundra_index ==
            ScanBack(lines, TUNDRA_MARKER, Len(lines) - 1, compilation_start_index)
    IN
    IF tundra_index = -1
    THEN Result(FALSE, Msg("* Tundra not found after EditorCompilation:InvokeCompilationStarted", <<>>), <<>>)
    ELSE
    LET output_start_index ==
            ScanBack(lines, OUTPUT_MARKER, tundra_index - 1, compilation_start_index)
    IN
    IF output_start_index = -1
    THEN Result(FALSE,
                Msg("# Output not found before * Tundra",
                    <<compilation_start_index, tundra_index>>),
                <<>>)
    ELSE
    LET compilation_logs == Collect(lines, output_start_index + 1, tundra_index)
    IN  Result(TRUE,
               Msg("Successfully read lines of compilation records",
                   <<Len(compilation_logs), output_start_index, tundra_index>>),
               compilation_logs)

\* lines 223-296: resolve the path, read the file, scan
ServerReadLog(before, env, files, access, lines) ==
    LET probe == PathProbe(EditorLogPath(env), files, access)
    IN
    IF probe = "raises"
    THEN ServerFault(before \o <<<<"resolve">>>>)
    ELSE IF probe = "missing"
    THEN [ret |-> Result(FALSE, Msg("Unity Editor.log not found", <<>>), <<>>),
          events |-> before \o <<<<"resolve">>>>]
    ELSE IF access # "ok"
    THEN ServerFault(before \o <<<<"resolve">>, <<"parse">>>>)
    ELSE [ret |-> ServerParseLines(lines),
          events |-> before \o <<<<"resolve">>, <<"parse">>>>]

\* lines 203-304; ctx_bridge is getattr(ctx, 'bridge', None)
server_compile_project(ctx_bridge, acquire, send, env, files, access, lines) ==
    LET acquired == IF ctx_bridge = "none" THEN <<<<"acquire">>>> ELSE <<>>
        bridge   == IF ctx_bridge = "none" THEN acquire ELSE ctx_bridge
        sent     == <<<<"send", "project_files_refresher">>>>
    IN
    IF bridge = "raises"
    THEN ServerFault(acquired)
    ELSE IF bridge = "none"
    THEN ServerReadLog(acquired, env, files, access, lines)
    ELSE IF Raises(send) \/ ~IsMapping(send)
    THEN ServerFault(acquired \o sent)
    ELSE IF ~Get(send, "success", FALSE)
    THEN ServerReadLog(acquired \o sent, env, files, access, lines)
    ELSE ServerReadLog(acquired \o sent \o <<<<"sleep", SETTLE_SECONDS>>>>,
                       env, files, access, lines)

----------------------------------------------------------------------------
(* Dynamic tool registry: register_dynamic_unity_tools *)

\* x.get(K) or x.get(k, default): strings and lists are sequences, and the
\* falsy values None, "" and [] are all the empty sequence
GetEither(x, K, k, default) ==
    IF Has(x, K) /\ x.items[K] # <<>> THEN x.items[K] ELSE Get(x, k, default)

\* cmd_type.replace('-', '_')
Normalize(s) == [i \in 1..Len(s) |-> IF s[i] = "-" THEN "_" ELSE s[i]]

\* lines 70-88: one doc line per parameter; param.get raises on a non-mapping
RECURSIVE ParamDocs(_)
ParamDocs(params_info) ==
    IF params_info = <<>> THEN <<>>
    ELSE LET param == Head(params_info)
             param_name == GetEither(param, "Name", "name", <<"u", "n", "k", "n", "o", "w", "n">>)
             param_desc == GetEither(param, "Description", "description", <<>>)
         IN  <<<<param_name, param_desc>>>> \o ParamDocs(Tail(params_info))

\* make_tool_func(cmd_type, desc, params_info): [raised, fn]
make_tool_func(cmd_type, desc, params_info) ==
    IF \E i \in 1..Len(params_info) : ~IsMapping(params_info[i])
    THEN [raised |-> TRUE]
    ELSE LET param_docs == ParamDocs(params_info)
         IN  [raised |-> FALSE,
              fn |-> [cmd_type |-> cmd_type,
                      name |-> Normalize(cmd_type),
                      doc |-> IF param_docs # <<>> THEN <<desc, param_docs>> ELSE <<desc>>]]

\* mcp.add_tool(tool_func, name=tool_name, description=description): the
\* registry is keyed by name (mcp._tool_manager._tools); what it does with a
\* name it already holds is the host framework's choice
add_tool(tools, tool, policy) ==
    IF tool.name \in DOMAIN tools /\ policy = "keep"
    THEN tools
    ELSE (tool.name :> tool) @@ tools

\* the except arm, lines 141-142: the log line reads command_type
RegisterFault(st) ==
    IF st.bound THEN st ELSE [st EXCEPT !.raised = TRUE]

\* one iteration of the loop, lines 53-142
RegisterStep(st, tool_meta, policy) ==
    IF ~IsMapping(tool_meta)
    THEN RegisterFault(st)
    ELSE
    LET command_type == GetEither(tool_meta, "CommandType", "commandType", <<>>)
        description  == GetEither(tool_meta, "Description", "description", <<>>)
        parameters   == GetEither(tool_meta, "Parameters", "parameters", <<>>)
        assigned     == [st EXCEPT !.bound = TRUE]
    IN
    IF command_type = <<>>
    THEN assigned
    ELSE
    LET made == make_tool_func(command_type, description, parameters)
    IN
    IF made.raised
    THEN RegisterFault(assigned)
    ELSE
    LET tool == [name |-> Normalize(command_type),
                 description |-> description,
                 fn |-> made.fn]
    IN  [assigned EXCEPT !.tools = add_tool(st.tools, tool, policy),
                         !.latest = (tool.name :> tool) @@ st.latest]

RECURSIVE RegisterLoop(_, _, _)
RegisterLoop(st, tools_metadata, policy) ==
    IF tools_metadata = <<>> \/ st.raised
    THEN st
    ELSE RegisterLoop(RegisterStep(st, Head(tools_metadata), policy),
                      Tail(tools_metadata), policy)

\* (mutant) no factory: the closures of one call read the loop's command_type
\* when they run, i.e. the value its last assignment left
register_late_binding(tools, hist, tools_metadata, policy) ==
    LET out == RegisterLoop([tools |-> tools, latest |-> hist, bound |-> FALSE, raised |-> FALSE],
                            tools_metadata, policy)
        assigning == {i \in 1..Len(tools_metadata) : IsMapping(tools_metadata[i])}
        last == CHOOSE i \in assigning : \A j \in assigning : j <= i
        left == GetEither(tools_metadata[last], "CommandType", "commandType", <<>>)
    IN  [out EXCEPT !.tools =
            [name \in DOMAIN out.tools |->
                IF name \in DOMAIN tools /\ out.tools[name] = tools[name]
                THEN out.tools[name]
                ELSE [out.tools[name] EXCEPT !.fn.cmd_type = left]]]

\* register_dynamic_unity_tools(mcp, tools_metadata)
register_dynamic_unity_tools(tools, hist, tools_metadata, policy) ==
    RegisterLoop([tools |-> tools, latest |-> hist, bound |-> FALSE, raised |-> FALSE],
                 tools_metadata, policy)

----------------------------------------------------------------------------
(* A registered dynamic tool: tool_func(ctx, **kwargs), lines 91-116 *)

\* (mutant) no except arm: the exception leaves tool_func
ToolFaultEscapes(done) ==
    [ret |-> [raised |-> TRUE], events |-> done]

\* the except arm, lines 115-116
ToolFault(done) ==
    [ret |-> [success |-> FALSE, message |-> "Error: Exception"], events |-> done]

ResponseOk(response) == Get(response, "success", FALSE)

tool_func(fn, ctx_bridge, acquire, send, kwargs) ==
    LET acquired == IF ctx_bridge = "none" THEN <<<<"acquire">>>> ELSE <<>>
        bridge   == IF ctx_bridge = "none" THEN acquire ELSE ctx_bridge
        sent     == <<<<"send", fn.cmd_type, kwargs>>>>
    IN
    IF bridge = "raises"
    THEN ToolFault(acquired)
    ELSE IF bridge = "none"
    THEN [ret |-> [success |-> FALSE, message |-> "Unity connection not available"],
          events |-> acquired]
    ELSE IF Raises(send) \/ ~IsMapping(send)
    THEN ToolFault(acquired \o sent)
    ELSE IF ResponseOk(send)
    THEN [ret |-> [success |-> TRUE,
                   message |-> Get(send, "message", "Operation successful"),
                   data |-> Get(send, "data", "None")],
          events |-> acquired \o sent]
    ELSE [ret |-> [success |-> FALSE, message |-> Get(send, "error", "Unknown error")],
          events |-> acquired \o sent]

----------------------------------------------------------------------------
(* Inputs *)

StartLine == <<"E", "S", "\n">>

TundraLine == <<"*", " ", "T", "\n">>

OutputLine == <<"#", " ", "O", "\n">>

\* lines the editor may write: blank, text, padded text, one marker, two markers
LogLines ==
    { <<"\n">>, <<"#", "O", "\n">>, <<" ", "y", " ", "\n">>,
      StartLine, TundraLine, OutputLine,
      <<"E", "S", "*", " ", "T">> }

CompileLogLines == {StartLine, TundraLine, OutputLine, <<" ", "y", "\n">>}

Param == Mapping([Name |-> <<"n">>, Type |-> <<"i", "n", "t">>, Description |-> <<"p">>])

Descriptors ==
    { Mapping([CommandType |-> <<"a", "-", "b">>, Description |-> <<"1">>, Parameters |-> <<>>]),
      Mapping([commandType |-> <<"a", "-", "b">>, description |-> <<"2">>, parameters |-> <<Param>>]),
      Mapping([CommandType |-> <<"a", "_", "b">>, Description |-> <<"3">>]),
      Mapping([commandType |-> <<"c">>]),
      Mapping([Description |-> <<"1">>]),
      Mapping([CommandType |-> <<"c">>, Parameters |-> <<Scalar(7)>>]),
      Scalar("text") }

RECURSIVE SeqsUpTo(_, _)
SeqsUpTo(S, n) ==
    IF n = 0 THEN {<<>>}
    ELSE LET shorter == SeqsUpTo(S, n - 1)
         IN  shorter \cup {Append(q, x) : q \in shorter, x \in S}

Batches == SeqsUpTo(Descriptors, MaxBatch)

KwargsSet == {{}, {<<"x", 1>>}}

Components == {"extractor", "orchestrator", "registry"}

NoCall == [op |-> "none"]

NoRet == [none |-> TRUE]

----------------------------------------------------------------------------
(* State machine *)

Init ==
    /\ component \in Components
    /\ log = <<>>
    /\ on_duplicate \in {"replace", "keep"}
    /\ (component # "registry" => on_duplicate = "keep")
    /\ registry = <<>>
    /\ latest = <<>>
    /\ call = NoCall
    /\ ret = NoRet
    /\ events = <<>>

\* the editor appends a line to Editor.log, between two calls
EditorWrites ==
    /\ component = "extractor"
    /\ call = NoCall
    /\ Len(log) < MaxLogLen
    /\ \E line \in LogLines : log' = Append(log, line)
    /\ UNCHANGED <<component, on_duplicate, registry, latest, call, ret, events>>

EditorWritesCompile ==
    /\ component = "orchestrator"
    /\ call = NoCall
    /\ Len(log) < MaxCompileLogLen
    /\ \E line \in CompileLogLines : log' = Append(log, line)
    /\ UNCHANGED <<component, on_duplicate, registry, latest, call, ret, events>>

\* UnityCompileCore.parse_compilation_logs(path) on the current file
Parse ==
    /\ component = "extractor"
    /\ call = NoCall
    /\ \E readable \in BOOLEAN :
        /\ call' = [op |-> "parse_compilation_logs", readable |-> readable]
        /\ ret' = parse_compilation_logs(readable, log)
    /\ events' = <<>>
    /\ UNCHANGED <<component, log, on_duplicate, registry, latest>>

\* inputs a call never reads are held at one value
AccessOutcomes == {"ok", "unreadable", "denied"}

ReadInputs(env, files, access) ==
    /\ env \in Environments
    /\ files \in FileSystems
    /\ access \in AccessOutcomes
    /\ (access = "denied" => files = {})
    /\ (EditorLogPath(env) \notin files => access # "unreadable")

ConnInputs(given, acquire, send) ==
    /\ given \in {"none", "conn"}
    /\ acquire \in AcquireOutcomes
    /\ send \in SendOutcomes
    /\ (given = "conn" => acquire = "conn")
    /\ (acquire # "conn" => Raises(send))

\* UnityCompileCore.compile_project(unity_connection, skip_trigger)
CompileProject ==
    /\ component = "orchestrator"
    /\ call = NoCall
    /\ \E skip_trigger \in BOOLEAN, given \in {"none", "conn"},
          acquire \in AcquireOutcomes, send \in SendOutcomes,
          env \in Environments, files \in FileSystems, access \in AccessOutcomes :
        /\ ConnInputs(given, acquire, send)
        /\ ReadInputs(env, files, access)
        /\ (skip_trigger => given = "none" /\ acquire = "none")
        /\ LET out == compile_project(given, skip_trigger, acquire, send,
                                      env, files, access, log)
           IN  /\ call' = [op |-> "compile_project", skip_trigger |-> skip_trigger,
                           given |-> given, acquire |-> acquire, send |-> send,
                           env |-> env, files |-> files, access |-> access]
               /\ ret' = out.ret
               /\ events' = out.events
    /\ UNCHANGED <<component, log, on_duplicate, registry, latest>>

\* the static tool compile_project(ctx) of server.py
ServerCompileProject ==
    /\ component = "orchestrator"
    /\ call = NoCall
    /\ call = NoCall
    /\ \E given \in {"none", "conn"},
          acquire \in AcquireOutcomes, send \in SendOutcomes,
          env \in Environments, files \in FileSystems, access \in AccessOutcomes :
        /\ ConnInputs(given, acquire, send)
        /\ ReadInputs(env, files, access)
        /\ LET out == server_compile_project(given, acquire, send,
                                             env, files, access, log)
           IN  /\ call' = [op |-> "server.compile_project",
                           given |-> given, acquire |-> acquire, send |-> send,
                           env |-> env, files |-> files, access |-> access]
               /\ ret' = out.ret
               /\ events' = out.events
    /\ UNCHANGED <<component, log, on_duplicate, registry, latest>>

\* register_dynamic_unity_tools(mcp, tools_metadata)
Register ==
    /\ component = "registry"
    /\ call = NoCall
    /\ \E tools_metadata \in Batches :
        LET out == register_dynamic_unity_tools(registry, latest, tools_metadata, on_duplicate)
        IN  /\ registry' = out.tools
            /\ latest' = out.latest
            /\ call' = [op |-> "register_dynamic_unity_tools", tools_metadata |-> tools_metadata]
            /\ ret' = [raised |-> out.raised]
    /\ events' = <<>>
    /\ UNCHANGED <<component, log, on_duplicate>>

\* the protocol host invokes a registered tool by name
Invoke ==
    /\ component = "registry"
    /\ call = NoCall
    /\ \E name \in DOMAIN registry, kwargs \in KwargsSet, given \in {"none", "conn"},
          acquire \in AcquireOutcomes, send \in SendOutcomes :
        /\ ConnInputs(given, acquire, send)
        /\ LET out == tool_func(registry[name].fn, given, acquire, send, kwargs)
           IN  /\ call' = [op |-> "tool_func", name |-> name, kwargs |-> kwargs,
                           given |-> given, acquire |-> acquire, send |-> send]
               /\ ret' = out.ret
               /\ events' = out.events
    /\ UNCHANGED <<component, log, on_duplicate, registry, latest>>

\* the call returns: its answer goes to the caller and the next call may start
Return ==
    /\ call # NoCall
    /\ call' = NoCall
    /\ ret' = NoRet
    /\ events' = <<>>
    /\ UNCHANGED <<component, log, on_duplicate, registry, latest>>

NextExtractor == EditorWrites \/ Parse \/ Return

NextCompile == EditorWritesCompile \/ CompileProject \/ ServerCompileProject \/ Return

NextTools == Register \/ Invoke \/ Return

Next == EditorWrites \/ Parse \/ EditorWritesCompile \/ CompileProject
            \/ ServerCompileProject \/ Register \/ Invoke \/ Return

Spec == Init /\ [][Next]_vars

InitExtractor == Init /\ component = "extractor"

SpecExtractor == InitExtractor /\ [][NextExtractor]_vars

InitCompile == Init /\ component = "orchestrator"

SpecCompile == InitCompile /\ [][NextCompile]_vars

InitTools == Init /\ component = "registry"

SpecTools == InitTools /\ [][NextTools]_vars

\* the two public operation boundaries: the orchestrators and the dynamic tools
NextBoundary == NextCompile \/ NextTools

InitBoundary == Init /\ component # "extractor"

SpecBoundary == InitBoundary /\ [][NextBoundary]_vars

----------------------------------------------------------------------------
(* Vocabulary of the properties: line numbers are 1-based positions in log *)

Max(S) == CHOOSE x \in S : \A y \in S : y <= x

Min(S) == CHOOSE x \in S : \A y \in S : x <= y

LinesWith(marker) == {i \in 1..Len(log) : Contains(log[i], marker)}

HasStart == LinesWith(START_MARKER) # {}

LastStart == Max(LinesWith(START_MARKER))

SectionsAfterStart == {i \in LinesWith(TUNDRA_MARKER) : i > LastStart}

SectionLine == Max(SectionsAfterStart)

OutputsInWindow == {i \in LinesWith(OUTPUT_MARKER) : LastStart < i /\ i < SectionLine}

OutputLine1 == Max(OutputsInWindow)

Trimmed(s) ==
    LET solid == {i \in 1..Len(s) : s[i] \notin Whitespace}
    IN  IF solid = {} THEN <<>> ELSE SubSeq(s, Min(solid), Max(solid))

NonEmpty(s) == s # <<>>

\* the trimmed non-empty lines strictly between lines a and b, in order
EntriesBetween(a, b) ==
    SelectSeq([i \in 1..(b - a - 1) |-> Trimmed(log[a + i])], NonEmpty)

Parsed == call.op = "parse_compilation_logs" /\ call.readable

----------------------------------------------------------------------------
(* Properties of the extractor (SpecExtractor) *)

\* C1: when the last start-marker line is followed by an output-marker line and
\* then a section-marker line, parse_compilation_logs succeeds and returns, in
\* order, the trimmed non-empty lines strictly between the last output-marker
\* line before the last section-marker line and that section-marker line.
C1_WindowEntries ==
    (Parsed /\ HasStart /\ SectionsAfterStart # {} /\ OutputsInWindow # {})
        => /\ ret.success
           /\ ret.compilation_logs = EntriesBetween(OutputLine1, SectionLine)

C1_Witness ==
    /\ Parsed /\ HasStart /\ SectionsAfterStart # {} /\ OutputsInWindow # {}
    /\ Len(ret.compilation_logs) = 2
    /\ ret.compilation_logs[1] # ret.compilation_logs[2]
    /\ \E i \in 1..Len(log) : log[i] = <<" ", "y", " ", "\n">> /\ OutputLine1 < i /\ i < SectionLine

\* C3: a log without any start-marker line yields success = false, no entries
\* and the message naming the start marker, whatever other markers it holds.
C3_NoStartFails ==
    (Parsed /\ ~HasStart)
        => /\ ret.success = FALSE
           /\ ret.compilation_logs = <<>>
           /\ ret.message.text = "EditorCompilation:InvokeCompilationStarted marker not found"

C3_Witness ==
    /\ Parsed /\ ~HasStart
    /\ LinesWith(TUNDRA_MARKER) # {}
    /\ LinesWith(OUTPUT_MARKER) # {}
    /\ ret.success = FALSE

\* C4: when no line strictly after the last start-marker line holds the section
\* marker, extraction fails with no entries and the message naming the section
\* marker, also when an earlier session holds section and output markers.
C4_NoSectionAfterStartFails ==
    (Parsed /\ HasStart /\ SectionsAfterStart = {})
        => /\ ret.success = FALSE
           /\ ret.compilation_logs = <<>>
           /\ ret.message.text = "* Tundra not found after EditorCompilation:InvokeCompilationStarted"

C4_Witness ==
    /\ Parsed /\ HasStart /\ SectionsAfterStart = {}
    /\ \E o \in LinesWith(OUTPUT_MARKER), t \in LinesWith(TUNDRA_MARKER) :
          o < t /\ t < LastStart
    /\ ret.success = FALSE

----------------------------------------------------------------------------
(* Properties of the compile orchestrators (SpecCompile) *)

CoreCompile == call.op = "compile_project"

AnyCompile == call.op \in {"compile_project", "server.compile_project"}

Probe == PathProbe(EditorLogPath(call.env), call.files, call.access)

LogWasRead == Probe = "exists" /\ call.access = "ok"

\* the connection did not fault: none was needed, none was there, or it answered
ConnectionAnswered ==
    \/ call.acquire = "none"
    \/ call.acquire = "conn" /\ IsMapping(call.send)

Did(kind) == \E i \in 1..Len(events) : events[i][1] = kind

\* C2: a log with a start marker and, after the last one, a section marker but
\* no output marker between the two yields success = true and no entries from
\* every compile entry point (core and the server's static tool).
C2_NoOutputIsSuccess ==
    (AnyCompile /\ LogWasRead /\ ConnectionAnswered
        /\ HasStart /\ SectionsAfterStart # {} /\ OutputsInWindow = {})
        => ret.success /\ ret.compilation_logs = <<>>

\* C9: with skip_trigger = false, whatever the trigger step did, the
\* orchestrator goes on to resolve (and, when the file is there, read) the log
\* and returns what compile_project(skip_trigger = true) returns on this log.
C9_TriggerBestEffort ==
    (CoreCompile /\ ~call.skip_trigger)
        => /\ Did("resolve")
           /\ (Probe = "exists" => Did("parse"))
           /\ ret = compile_project("none", TRUE, "none", Scalar("raises"),
                                    call.env, call.files, call.access, log).ret

C9_Witness ==
    /\ CoreCompile /\ ~call.skip_trigger
    /\ call.acquire = "raises"
    /\ Did("parse")
    /\ ret.success
    /\ Len(ret.compilation_logs) = 1

\* C10: when the resolved Editor.log path does not exist, compile_project
\* returns {success: false, "Unity Editor.log not found", []} with and without
\* the trigger, and the extractor is not invoked.
C10_MissingLog ==
    (CoreCompile /\ Probe = "missing")
        => /\ ret = Result(FALSE, Msg("Unity Editor.log not found", <<>>), <<>>)
           /\ ~Did("parse")

C10_Witness ==
    /\ CoreCompile /\ Probe = "missing"
    /\ ~call.skip_trigger
    /\ Did("sleep")
    /\ call.files # {}
    /\ HasStart /\ SectionsAfterStart # {} /\ OutputsInWindow # {}
    /\ ret.success = FALSE

----------------------------------------------------------------------------
(* Properties of the dynamic tools (SpecTools) *)

Registered == call.op = "register_dynamic_unity_tools"

Invoked == call.op = "tool_func"

\* C6: after any sequence of registrations every normalized name maps to one
\* tool, and that tool is the one built from the most recent descriptor
\* registered under that name.
C6_LatestWins ==
    /\ DOMAIN registry = DOMAIN latest
    /\ \A name \in DOMAIN latest : registry[name] = latest[name]

CommandName(d) ==
    IF Has(d, "CommandType") THEN d.items.CommandType ELSE d.items.commandType

ParametersOf(d) ==
    IF Has(d, "Parameters") THEN d.items.Parameters
    ELSE IF Has(d, "parameters") THEN d.items.parameters
    ELSE <<>>

WellFormed(d) ==
    /\ IsMapping(d)
    /\ (Has(d, "CommandType") \/ Has(d, "commandType"))
    /\ CommandName(d) # <<>>
    /\ \A i \in 1..Len(ParametersOf(d)) : IsMapping(ParametersOf(d)[i])

\* C7: a registration call does not raise, and every well-formed descriptor of
\* its batch is registered, wherever the malformed ones stand in the batch.
C7_MalformedSkipped ==
    Registered
        => /\ ~ret.raised
           /\ \A i \in 1..Len(call.tools_metadata) :
                 WellFormed(call.tools_metadata[i])
                    => Normalize(CommandName(call.tools_metadata[i])) \in DOMAIN registry

\* the executor's verdict: its success flag when it gives one, else the
\* absence of an error field
ReportsSuccess(response) == Get(response, "success", ~Has(response, "error"))

\* C8: a response that reports success, by its flag or implicitly by carrying
\* no error field, is surfaced as {success: true, message, data}; a response
\* marked failed as {success: false, message: its error or "Unknown error"}.
C8_ImplicitSuccess ==
    (Invoked /\ call.acquire = "conn" /\ IsMapping(call.send))
        => IF ReportsSuccess(call.send)
           THEN ret = [success |-> TRUE,
                       message |-> Get(call.send, "message", "Operation successful"),
                       data |-> Get(call.send, "data", "None")]
           ELSE ret = [success |-> FALSE,
                       message |-> Get(call.send, "error", "Unknown error")]

----------------------------------------------------------------------------
(* Property of both boundaries (SpecBoundary) *)

ConnectionFault ==
    \/ call.acquire # "conn"
    \/ Raises(call.send)
    \/ ~IsMapping(call.send)

\* C5: no fault escapes a public operation: a dynamic tool always returns a
\* structured result, {success: false, message} when the connection is absent
\* or fails or answers in an unexpected shape, and the compile orchestrators
\* always return {success, message, compilation_logs}.
C5_NoFaultEscapes ==
    /\ Invoked =>
          /\ DOMAIN ret \in {{"success", "message"}, {"success", "message", "data"}}
          /\ ret.success \in BOOLEAN
          /\ (ConnectionFault =>
                DOMAIN ret = {"success", "message"} /\ ret.success = FALSE)
    /\ AnyCompile =>
          /\ DOMAIN ret = {"success", "message", "compilation_logs"}
          /\ ret.success \in BOOLEAN
          /\ DOMAIN ret.message = {"text", "args"}

C5_Witness ==
    /\ Invoked
    /\ call.kwargs # {}
    /\ call.acquire = "conn"
    /\ ~IsMapping(call.send) /\ ~Raises(call.send)
    /\ ret = [success |-> FALSE, message |-> "Error: Exception"]

----------------------------------------------------------------------------
(* Single session window (SpecExtractor) *)

WindowFound ==
    /\ Parsed
    /\ ret.success
    /\ ret.message.text = "Successfully read compilation records"

\* the 0-based indices the success message reports
ReportedOutput == ret.message.args[2]

ReportedSection == ret.message.args[3]

\* C11: when extraction succeeds with an output section, last start line <
\* output line < section line; so every line of the window lies strictly after
\* the last start-marker line and none of them is a start-marker line.
C11_SingleSession ==
    WindowFound
        => /\ HasStart
           /\ LastStart - 1 < ReportedOutput
           /\ ReportedOutput < ReportedSection
           /\ Contains(log[ReportedOutput + 1], OUTPUT_MARKER)
           /\ Contains(log[ReportedSection + 1], TUNDRA_MARKER)
           /\ \A i \in (ReportedOutput + 2)..ReportedSection :
                 i > LastStart /\ ~Contains(log[i], START_MARKER)
           /\ ret.compilation_logs = EntriesBetween(ReportedOutput + 1, ReportedSection + 1)

C11_Witness ==
    /\ WindowFound
    /\ \E m \in LinesWith(OUTPUT_MARKER) \cup LinesWith(TUNDRA_MARKER) : m < LastStart
    /\ Cardinality(LinesWith(START_MARKER)) = 2
    /\ Len(ret.compilation_logs) = 1

----------------------------------------------------------------------------
(* One command per invocation (SpecTools) *)

Sends == {i \in 1..Len(events) : events[i][1] = "send"}

DescriptionOf(d) ==
    IF Has(d, "Description") THEN d.items.Description
    ELSE IF Has(d, "description") THEN d.items.description
    ELSE <<>>

\* the command names of the descriptors a tool with this name and description
\* can have been built from
OwnCommandNames(tool) ==
    {CommandName(d) : d \in {x \in Descriptors :
        /\ WellFormed(x)
        /\ Normalize(CommandName(x)) = tool.name
        /\ DescriptionOf(x) = tool.description}}

\* C12: an invocation sends at most one command; with a connection it sends
\* exactly one, named by the tool's own un-normalized command name and carrying
\* exactly the received arguments; without a connection it sends nothing and
\* returns {success: false, "Unity connection not available"}.
C12_OneCommand ==
    Invoked
        => /\ Cardinality(Sends) <= 1
           /\ (call.acquire = "conn"
                 => /\ Cardinality(Sends) = 1
                    /\ \A i \in Sends :
                          /\ events[i][2] \in OwnCommandNames(registry[call.name])
                          /\ events[i][3] = call.kwargs)
           /\ (call.acquire # "conn" => Sends = {})
           /\ (call.acquire = "none"
                 => ret = [success |-> FALSE, message |-> "Unity connection not available"])

C12_Witness ==
    /\ Invoked
    /\ call.acquire = "conn"
    /\ call.kwargs # {}
    /\ Cardinality(DOMAIN registry) = 2
    /\ call.name = <<"a", "_", "b">>
    /\ \E i \in Sends : events[i][2] = <<"a", "-", "b">>

----------------------------------------------------------------------------
(* Trigger step of the core orchestrator (SpecCompile) *)

Position(kind) == CHOOSE i \in 1..Len(events) : events[i][1] = kind

\* C13: the trigger counts as successful exactly when the response carries no
\* error field; the settle wait happens exactly when the trigger succeeded and
\* before the log is resolved and read; a response with an error field is a
\* trigger failure without settle wait.
C13_TriggerIffNoError ==
    (CoreCompile /\ ~call.skip_trigger /\ call.acquire = "conn" /\ IsMapping(call.send))
        => LET triggered ==
                   trigger_compilation_via_unity(call.given, call.acquire, call.send).triggered
           IN  /\ triggered <=> ~Has(call.send, "error")
               /\ Did("sleep") <=> triggered
               /\ (Did("sleep") => Position("sleep") < Position("resolve"))
               /\ (Has(call.send, "error") => ~triggered /\ ~Did("sleep"))

====
